---------------------------- MODULE Spec2Model ----------------------------
(***************************************************************************)
(* Model of src/app.py: one run of the dashboard script.                   *)
(*                                                                         *)
(*   init_connection -> get_data (fetch + normalisation) -> sidebar filter *)
(*   pipeline (date window, brand filter) -> empty-state guard -> metrics  *)
(*   -> charts and table.                                                  *)
(*                                                                         *)
(* Python values are tagged records [t, v]; a Python string is the         *)
(* sequence of its characters, so that ast.literal_eval and str() are      *)
(* computed on characters.  An exception raised by an expression is the    *)
(* value Raise, which every enclosing operator propagates until a model of *)
(* a try/except turns it into the handler's value.                         *)
(***************************************************************************)
EXTENDS Integers, Sequences, FiniteSets

---------------------------------------------------------------------------
(* Bounds of the model *)

\* largest number of rows of the backend table
MaxRows == 4
\* length up to which every string over Alphabet is a raw topic value
MaxLen == 2
\* largest number of elements of the list values rendered as raw topics
MaxElems == 2
\* the instant pd.Timestamp.now() returns in the run, in days
Now == 100

(* Program constants *)

\* st.sidebar.slider(..., 1, 90, 30)
SliderMin == 1
SliderMax == 90
SliderDefault == 30

---------------------------------------------------------------------------
(* Python values *)

PyStr(s)   == [t |-> "str",   v |-> s]
PyInt(d)   == [t |-> "int",   v |-> d]
PyList(xs) == [t |-> "list",  v |-> xs]
PyTuple(xs) == [t |-> "tuple", v |-> xs]
PyNone     == [t |-> "none",  v |-> <<>>]
PyNaN      == [t |-> "float", v |-> <<>>]
Raise      == [t |-> "raise", v |-> <<>>]

Q == "'"

\* the characters raw strings are built from
Alphabet == {"[", "]", ",", Q, "a", "1", " "}

RECURSIVE Join(_)
\* the concatenation of a sequence of character sequences
Join(ss) == IF ss = <<>> THEN <<>> ELSE Head(ss) \o Join(Tail(ss))

RECURSIVE Render(_, _)
\* x written as a literal with sep between the elements: strings quoted
\* (with double quotes when they hold a single quote)
Render(x, sep) ==
    LET Elems(xs) ==
            Join([i \in 1..Len(xs) |->
                    (IF i = 1 THEN <<>> ELSE sep) \o Render(xs[i], sep)])
    IN  CASE x.t = "str"   -> LET q == IF \E i \in 1..Len(x.v) : x.v[i] = Q
                                       THEN "\"" ELSE Q
                              IN  <<q>> \o x.v \o <<q>>
          [] x.t = "int"   -> x.v
          [] x.t = "list"  -> <<"[">> \o Elems(x.v) \o <<"]">>
          [] x.t = "tuple" -> <<"(">> \o Elems(x.v)
                                \o (IF Len(x.v) = 1 THEN <<",">> ELSE <<>>)
                                \o <<")">>
          [] x.t = "none"  -> <<"N", "o", "n", "e">>
          [] x.t = "float" -> <<"n", "a", "n">>

\* repr(x)
Repr(x) == Render(x, <<",", " ">>)

\* str(x): a string is itself, anything else its repr
Str(x) == IF x.t = "str" THEN x.v ELSE Repr(x)

---------------------------------------------------------------------------
(* ast.literal_eval on a character sequence *)

Fail == [ok |-> FALSE, val |-> Raise, pos |-> 0]
Ok(val, pos) == [ok |-> TRUE, val |-> val, pos |-> pos]

RECURSIVE SkipSp(_, _)
\* the first position from i on that holds no space
SkipSp(s, i) == IF i <= Len(s) /\ s[i] = " " THEN SkipSp(s, i + 1) ELSE i

IsTriple(s, i) == i + 2 <= Len(s) /\ s[i] = Q /\ s[i + 1] = Q /\ s[i + 2] = Q

\* the first quote at or after i, 0 when there is none
FindQuote(s, i) ==
    LET ks == {k \in i..Len(s) : s[k] = Q}
    IN  IF ks = {} THEN 0 ELSE CHOOSE k \in ks : \A m \in ks : k <= m

\* the first three quotes in a row at or after i, 0 when there are none
FindTriple(s, i) ==
    LET ks == {k \in i..Len(s) : IsTriple(s, k)}
    IN  IF ks = {} THEN 0 ELSE CHOOSE k \in ks : \A m \in ks : k <= m

\* one string token starting at the quote s[i]
ScanString(s, i) ==
    IF IsTriple(s, i)
    THEN LET k == FindTriple(s, i + 3)
         IN  IF k = 0 THEN Fail ELSE Ok(SubSeq(s, i + 3, k - 1), k + 3)
    ELSE LET k == FindQuote(s, i + 1)
         IN  IF k = 0 THEN Fail ELSE Ok(SubSeq(s, i + 1, k - 1), k + 1)

RECURSIVE ParseStrings(_, _, _)

\* after the string token r: another string token follows, or the string ends
StringsNext(s, acc, r) ==
    IF ~r.ok THEN Fail
    ELSE IF SkipSp(s, r.pos) <= Len(s) /\ s[SkipSp(s, r.pos)] = Q
         THEN ParseStrings(s, SkipSp(s, r.pos), acc \o r.val)
         ELSE Ok(PyStr(acc \o r.val), r.pos)

\* adjacent string tokens from s[i] on, concatenated
ParseStrings(s, i, acc) == StringsNext(s, acc, ScanString(s, i))

RECURSIVE DigitsEnd(_, _)
DigitsEnd(s, i) == IF i <= Len(s) /\ s[i] = "1" THEN DigitsEnd(s, i + 1) ELSE i

\* a decimal number token starting at s[i]
ParseNumber(s, i) ==
    LET k == DigitsEnd(s, i)
    IN  IF k <= Len(s) /\ s[k] = "a" THEN Fail
        ELSE Ok(PyInt(SubSeq(s, i, k - 1)), k)

RECURSIVE ParseValue(_, _)
RECURSIVE ParseItems(_, _, _)

\* a display (list), a string or a number at s[i]; a name is no literal
ParseValue(s, i) ==
    IF i > Len(s) THEN Fail
    ELSE CASE s[i] = "[" -> ParseItems(s, SkipSp(s, i + 1), <<>>)
           [] s[i] = Q   -> ParseStrings(s, i, <<>>)
           [] s[i] = "1" -> ParseNumber(s, i)
           [] OTHER      -> Fail

\* after the element r of a list: a comma and the rest, or the closing "]"
ItemsNext(s, acc, r, j) ==
    IF ~r.ok \/ j > Len(s) THEN Fail
    ELSE IF s[j] = "," THEN ParseItems(s, SkipSp(s, j + 1), Append(acc, r.val))
    ELSE IF s[j] = "]" THEN Ok(PyList(Append(acc, r.val)), j + 1)
    ELSE Fail

\* the position after the value r and the spaces that follow it
After(s, r) == IF r.ok THEN SkipSp(s, r.pos) ELSE 0

ItemsElem(s, acc, r) == ItemsNext(s, acc, r, After(s, r))

\* the elements of a list after its "[", up to and including its "]"
ParseItems(s, i, acc) ==
    IF i > Len(s) THEN Fail
    ELSE IF s[i] = "]" THEN Ok(PyList(acc), i + 1)
    ELSE ItemsElem(s, acc, ParseValue(s, i))

RECURSIVE ParseTop(_, _, _)

\* after the value r of an expression list: the end, or a comma and the rest
TopNext(s, acc, r, j) ==
    IF ~r.ok THEN Raise
    ELSE IF j > Len(s)
         THEN (IF acc = <<>> THEN r.val ELSE PyTuple(Append(acc, r.val)))
    ELSE IF s[j] # "," THEN Raise
    ELSE IF SkipSp(s, j + 1) > Len(s) THEN PyTuple(Append(acc, r.val))
    ELSE ParseTop(s, SkipSp(s, j + 1), Append(acc, r.val))

TopElem(s, acc, r) == TopNext(s, acc, r, After(s, r))

\* an expression list: one value, or a tuple of values separated by commas
ParseTop(s, i, acc) == TopElem(s, acc, ParseValue(s, i))

\* ast.literal_eval(s): the value of the literal, or Raise (SyntaxError,
\* ValueError) when s is no literal
literal_eval(s) == ParseTop(s, SkipSp(s, 1), <<>>)

---------------------------------------------------------------------------
(* get_data's normalisation of ai_category_topic *)

\* limpar_topico without its except clause: a parse failure leaves it
FirstOrStr_NoExcept(x, val) ==
    IF val.t = "raise" THEN Raise
    ELSE IF val.t = "list" /\ Len(val.v) > 0 THEN val.v[1]
    ELSE PyStr(Str(val))

\* lines 114-116, val being what line 113 evaluated to
FirstOrStr(x, val) ==
    IF val.t = "raise" THEN PyStr(Str(x))
    ELSE IF val.t = "list" /\ Len(val.v) > 0 THEN val.v[1]
    ELSE PyStr(Str(val))

\* limpar_topico(x), with its try/except
limpar_topico(x) ==
    FirstOrStr(x, IF x.t = "str" /\ Len(x.v) > 0 /\ x.v[1] = "["
                  THEN literal_eval(x.v) ELSE x)

\* the column out put back into the rows; an exception in one call ends it
WithTopics(rows, out) ==
    IF \E i \in 1..Len(rows) : out[i].t = "raise"
    THEN [exc |-> TRUE, rows |-> <<>>]
    ELSE [exc |-> FALSE,
          rows |-> [i \in 1..Len(rows) |->
                      [rows[i] EXCEPT !.ai_category_topic = out[i]]]]

\* df['ai_category_topic'].apply(limpar_topico)
ApplyTopics(rows) ==
    WithTopics(rows, [i \in 1..Len(rows) |-> limpar_topico(rows[i].ai_category_topic)])

---------------------------------------------------------------------------
(* The backend table and the data frame *)

\* a missing value (None / NaN) of a string column
NA == "<NA>"

AllCols == {"created_at", "video_marca", "file_name", "ai_category_topic",
            "status", "ai_summary"}

\* the columns a table may come with: all of them, or all but one
ColFamilies == {AllCols} \cup {AllCols \ {c} : c \in AllCols}

\* a raw created_at: a text that parses to the instant t, or one that does not
Stamp(t) == [ok |-> TRUE, t |-> t]
BadStamp == [ok |-> FALSE, t |-> 0]

Row(c, m, f, tp, s) ==
    [created_at |-> c, video_marca |-> m, file_name |-> f,
     ai_category_topic |-> tp, status |-> s]

\* the rows the tables of Init are made of
RowPool ==
    << Row(Stamp(Now), "A", "v1",
           PyStr(<<"[", Q, "a", Q, ",", " ", Q, "b", Q, "]">>), "Resolvido"),
       Row(Stamp(Now - SliderMin), "A", "v1", PyStr(<<"x">>), "Pendente"),
       Row(Stamp(Now - SliderDefault), "B", "v2", PyStr(<<"[", "]">>), "Resolvido"),
       Row(Stamp(Now - SliderMax), "B", "v2",
           PyStr(<<"[", Q, "a">>), "Pendente"),
       Row(Stamp(Now - SliderMax - 1), "A", "v3",
           PyStr(<<"[", Q, "b", Q, "]">>), "Resolvido"),
       Row(Stamp(Now), NA, "v2", PyStr(<<"[", "1", "]">>), "Resolvido"),
       Row(BadStamp, "A", "v1", PyStr(<<"x">>), "Resolvido") >>

\* a row as the table with columns cols holds it
Project(r, cols) ==
    [created_at        |-> IF "created_at" \in cols THEN r.created_at ELSE Stamp(0),
     video_marca       |-> IF "video_marca" \in cols THEN r.video_marca ELSE NA,
     file_name         |-> IF "file_name" \in cols THEN r.file_name ELSE NA,
     ai_category_topic |-> IF "ai_category_topic" \in cols
                           THEN r.ai_category_topic ELSE PyNone,
     status            |-> IF "status" \in cols THEN r.status ELSE NA]

\* the tables of at most MaxRows rows of RowPool, rows in the pool's order
Tables ==
    LET Idx == UNION {{s \in [1..n -> 1..Len(RowPool)] :
                          \A i \in 1..n : \A j \in 1..n : i < j => s[i] <= s[j]}
                      : n \in 0..MaxRows}
    IN  UNION {{[cols |-> IF s = <<>> THEN {} ELSE cols,
                 rows |-> [i \in 1..Len(s) |-> Project(RowPool[s[i]], cols)]]
                : cols \in ColFamilies} : s \in Idx}

\* every string of at most MaxLen characters of Alphabet
ShortStrings == UNION {[1..k -> Alphabet] : k \in 0..MaxLen}

\* the elements of the list values written out as raw topics
ElemPool == {PyStr(<<"a">>), PyInt(<<"1">>), PyList(<<>>),
             PyList(<<PyStr(<<"a">>)>>)}

\* the list values of at most MaxElems elements
ListValues == {PyList(xs) : xs \in UNION {[1..k -> ElemPool] : k \in 0..MaxElems}}

\* their literals, written as repr writes them and without the spaces
Literals == {Repr(l) : l \in ListValues} \cup {Render(l, <<",">>) : l \in ListValues}

\* the literals cut short
Truncated == UNION {{SubSeq(l, 1, k) : k \in 1..(Len(l) - 1)} : l \in Literals}

\* the raw values of ai_category_topic: strings, and what a JSON column holds
RawValues ==
    {PyStr(s) : s \in ShortStrings \cup Literals \cup Truncated}
        \cup ListValues \cup {PyNone, PyNaN, PyInt(<<"1">>)}

\* a malformed list literal
Unterminated == PyStr(<<"[", "u", "n", "t", "e", "r", "m", "i", "n", "a", "t", "e", "d">>)

\* the tables whose topics are the raw values, alone or beside a malformed one
TopicTables ==
    LET One(x) == Row(Stamp(Now), "A", "v1", x, "Resolvido")
        Bad    == Row(Stamp(Now - SliderDefault), "B", "v2", Unterminated, "Pendente")
    IN  UNION {{[cols |-> AllCols, rows |-> <<One(x)>>],
                [cols |-> AllCols, rows |-> <<One(x), Bad>>],
                [cols |-> AllCols, rows |-> <<Bad, One(x)>>]} : x \in RawValues}
          \cup {[cols |-> cols, rows |-> <<Project(Bad, cols)>>] : cols \in ColFamilies}

\* pd.DataFrame()
EmptyDF == [cols |-> {}, rows |-> <<>>]

\* df.empty
Empty(d) == d.rows = <<>> \/ d.cols = {}

---------------------------------------------------------------------------
(* init_connection and get_data *)

\* what st.secrets and the key hold
Configs == {"ok", "no_url", "no_key", "bad_url", "wrong_key"}

\* what the select ends with
Responses == {"ok", "network", "auth", "malformed"}

\* the body of init_connection's try: a missing secret raises KeyError and
\* create_client raises on a URL it cannot accept
create_client(c) == IF c \in {"no_url", "no_key", "bad_url"} THEN "raise" ELSE "client"

\* init_connection(), with its try/except
init_connection(c) == IF create_client(c) = "raise" THEN "None" ELSE "client"

\* pd.to_datetime(df['created_at']): raises on a text that is no date
to_datetime(rows) ==
    IF \E i \in 1..Len(rows) : ~rows[i].created_at.ok
    THEN [exc |-> TRUE, rows |-> <<>>]
    ELSE [exc |-> FALSE,
          rows |-> [i \in 1..Len(rows) |->
                      [rows[i] EXCEPT !.created_at = rows[i].created_at.t]]]

\* the rows with created_at left as fetched (the column is absent)
Untouched(rows) ==
    [exc |-> FALSE,
     rows |-> [i \in 1..Len(rows) |-> [rows[i] EXCEPT !.created_at = 0]]]

\* lines 118-120, d being the rows after lines 108-109
NormalizeTopics(cols, d) ==
    IF d.exc THEN d
    ELSE IF "ai_category_topic" \in cols THEN ApplyTopics(d.rows) ELSE d

\* what the try's body ends with: the frame of line 120, or an exception
Frame(cols, d) ==
    IF d.exc THEN [exc |-> TRUE, cols |-> {}, rows |-> <<>>]
    ELSE [exc |-> FALSE, cols |-> cols, rows |-> d.rows]

\* the body of get_data's try
get_data_body(r, data) ==
    IF r # "ok" THEN [exc |-> TRUE, cols |-> {}, rows |-> <<>>]
    ELSE IF Empty(data) THEN [exc |-> FALSE, cols |-> {}, rows |-> <<>>]
    ELSE Frame(data.cols,
               NormalizeTopics(data.cols,
                   IF "created_at" \in data.cols
                   THEN to_datetime(data.rows) ELSE Untouched(data.rows)))

\* get_data without its except clause: the exception leaves get_data
OrEmpty_NoExcept(b) == b

\* except: return pd.DataFrame()
OrEmpty(b) == IF b.exc THEN [exc |-> FALSE, cols |-> {}, rows |-> <<>>] ELSE b

\* get_data(), with its guard on the client and its try/except
get_data(sb, r, data) ==
    IF sb = "None" THEN [exc |-> FALSE, cols |-> {}, rows |-> <<>>]
    ELSE OrEmpty(get_data_body(r, data))

---------------------------------------------------------------------------
(* The sidebar's filter pipeline *)

\* the slider's values the runs take
DiasChoices == {SliderMin, SliderDefault, SliderMax}

\* pd.Timestamp.now(tz) - pd.Timedelta(days=dias)
DataCorte(dias) == Now - dias

\* the window with > for >=
DateWindow_Exclusive(rows, corte) == SelectSeq(rows, LAMBDA r : r.created_at > corte)

\* df[df['created_at'] >= data_corte]
DateWindow(rows, corte) == SelectSeq(rows, LAMBDA r : r.created_at >= corte)

\* sorted(df_filtrado['video_marca'].dropna().unique()), as a set
TodasMarcas(rows) == {rows[i].video_marca : i \in 1..Len(rows)} \ {NA}

\* the brand filter without its "if marca_sel": an empty selection keeps nothing
BrandFilter_NoGuard(rows, sel) == SelectSeq(rows, LAMBDA r : r.video_marca \in sel)

\* if marca_sel: df_filtrado = df_filtrado[df_filtrado['video_marca'].isin(marca_sel)]
BrandFilter(rows, sel) ==
    IF sel # {} THEN SelectSeq(rows, LAMBDA r : r.video_marca \in sel) ELSE rows

\* a sidebar with a second multiselect, on ai_category_topic
SidebarWidgets_Category(marcas) ==
    { [col |-> "created_at", options |-> {"slider"}],
      [col |-> "video_marca", options |-> marcas],
      [col |-> "ai_category_topic", options |-> marcas] }

\* the sidebar's controls: the column each one filters and what it offers
SidebarWidgets(marcas) ==
    { [col |-> "created_at", options |-> {"slider"}],
      [col |-> "video_marca", options |-> marcas] }

\* the run without the guard of lines 141-143
MustStop_Never(rows) == FALSE

\* if df_filtrado.empty: st.warning(...); st.stop()
MustStop(rows) == rows = <<>>

---------------------------------------------------------------------------
(* Metrics and charts *)

\* format(x, ".0f") of x = n / d: the nearest integer, a tie to even.  The
\* code rounds the float resolvidos/total*100, which is this value whenever
\* 100 * n / d is no tie; a tie needs a total that is a multiple of 8, and
\* there the float may fall to either neighbour.
RoundHalfEven(n, d) ==
    LET q == n \div d
        r == n % d
    IN  IF 2 * r < d THEN q
        ELSE IF 2 * r > d THEN q + 1
        ELSE IF q % 2 = 0 THEN q ELSE q + 1

\* len(df_filtrado[df_filtrado['status'] == 'Resolvido']) if 'status' in columns else 0
Resolvidos(cols, rows) ==
    IF "status" \in cols
    THEN Len(SelectSeq(rows, LAMBDA r : r.status = "Resolvido"))
    ELSE 0

\* the rate without its * 100
TaxaRes_Fraction(resolvidos, total) ==
    IF total # 0 THEN RoundHalfEven(resolvidos, total) ELSE 0

\* f"{(resolvidos/total*100) if total else 0:.0f}"
TaxaRes(resolvidos, total) ==
    IF total # 0 THEN RoundHalfEven(resolvidos * 100, total) ELSE 0

\* df_filtrado['file_name'].nunique()
VideosUnicos(rows) == Cardinality({rows[i].file_name : i \in 1..Len(rows)} \ {NA})

\* groupby(['video_marca', 'ai_category_topic']).size(): null keys are dropped
HeatData(rows) ==
    LET Same(i, k) == /\ rows[k].video_marca = rows[i].video_marca
                      /\ rows[k].ai_category_topic = rows[i].ai_category_topic
    IN  { [video_marca |-> rows[i].video_marca,
           ai_category_topic |-> rows[i].ai_category_topic,
           Qtd |-> Cardinality({k \in 1..Len(rows) : Same(i, k)})]
          : i \in {k \in 1..Len(rows) : rows[k].video_marca # NA} }

\* a list is unhashable: groupby and value_counts raise TypeError on it
Unhashable(rows) == \E i \in 1..Len(rows) : rows[i].ai_category_topic.t = "list"

\* the columns the detail table selects
cols_view == {"created_at", "video_marca", "ai_category_topic", "status", "ai_summary"}

---------------------------------------------------------------------------
(* The run *)

VARIABLES
    pc,            \* the run's position
    err,           \* the exception that ended the run, "" when none did
    backend,       \* the table video_feedbacks
    cfg,           \* what the secrets held
    supabase,      \* init_connection()'s value
    resp,          \* how the select ended
    df,            \* get_data()'s value
    dias,          \* the slider's value
    df_janela,     \* df_filtrado after line 131: the date-windowed rows
    todas_marcas,  \* the brands offered
    marca_sel,     \* the brands selected
    widgets,       \* the sidebar's controls
    df_filtrado,   \* the final filtered rows
    warned,        \* st.warning("Sem dados para exibir...") was shown
    kpi,           \* total, videos_unicos, resolvidos, taxa_res, pendentes
    heat_data,     \* the heatmap's cross tabulation
    computed       \* the aggregates computed so far

vars == <<pc, err, backend, cfg, supabase, resp, df, dias, df_janela,
          todas_marcas, marca_sel, widgets, df_filtrado, warned, kpi,
          heat_data, computed>>

NoKpi == [total |-> 0, videos_unicos |-> 0, resolvidos |-> 0,
          taxa_res |-> 0, pendentes |-> 0]

InitRun ==
    /\ pc = "start"
    /\ err = ""
    /\ cfg = "unset"
    /\ supabase = "unset"
    /\ resp = "unset"
    /\ df = EmptyDF
    /\ dias = SliderDefault
    /\ df_janela = <<>>
    /\ todas_marcas = {}
    /\ marca_sel = {}
    /\ widgets = {}
    /\ df_filtrado = <<>>
    /\ warned = FALSE
    /\ kpi = NoKpi
    /\ heat_data = {}
    /\ computed = {}

Init == backend \in Tables /\ InitRun

\* supabase = init_connection()
InitConnection ==
    /\ pc = "start"
    /\ \E c \in Configs :
          /\ cfg' = c
          /\ IF create_client(c) = "raise" /\ init_connection(c) = "raise"
             THEN pc' = "crashed" /\ err' = "init_connection" /\ supabase' = "unset"
             ELSE pc' = "fetch" /\ err' = err /\ supabase' = init_connection(c)
    /\ UNCHANGED <<backend, resp, df, dias, df_janela, todas_marcas, marca_sel,
                   widgets, df_filtrado, warned, kpi, heat_data, computed>>

\* the run after get_data() ended with d
Loaded(d) ==
    IF d.exc
    THEN pc' = "crashed" /\ err' = "get_data" /\ df' = df
    ELSE pc' = "sidebar" /\ err' = err /\ df' = [cols |-> d.cols, rows |-> d.rows]

\* df = get_data()
GetData ==
    /\ pc = "fetch"
    /\ \E r \in Responses :
          /\ supabase = "None" => r = "ok"
          /\ cfg = "wrong_key" => r \in {"auth", "network"}
          /\ resp' = IF supabase = "None" THEN "unset" ELSE r
          /\ Loaded(get_data(supabase, r, backend))
    /\ UNCHANGED <<backend, cfg, supabase, dias, df_janela, todas_marcas,
                   marca_sel, widgets, df_filtrado, warned, kpi, heat_data,
                   computed>>

\* lines 128-139, df not empty and both columns there
SidebarFilter ==
    /\ pc = "sidebar"
    /\ ~Empty(df)
    /\ "created_at" \in df.cols
    /\ "video_marca" \in df.cols
    /\ \E d \in DiasChoices :
          LET janela == DateWindow(df.rows, DataCorte(d))
              marcas == TodasMarcas(janela)
          IN  /\ dias' = d
              /\ df_janela' = janela
              /\ todas_marcas' = marcas
              /\ widgets' = SidebarWidgets(marcas)
              /\ \E sel \in SUBSET marcas :
                    /\ marca_sel' = sel
                    /\ df_filtrado' = BrandFilter(janela, sel)
    /\ pc' = "guard"
    /\ UNCHANGED <<err, backend, cfg, supabase, resp, df, warned, kpi,
                   heat_data, computed>>

\* line 130: df['created_at'] raises KeyError
SidebarNoCreatedAt ==
    /\ pc = "sidebar"
    /\ ~Empty(df)
    /\ "created_at" \notin df.cols
    /\ \E d \in DiasChoices : dias' = d
    /\ widgets' = {[col |-> "created_at", options |-> {"slider"}]}
    /\ pc' = "crashed"
    /\ err' = "KeyError: 'created_at'"
    /\ UNCHANGED <<backend, cfg, supabase, resp, df, df_janela, todas_marcas,
                   marca_sel, df_filtrado, warned, kpi, heat_data, computed>>

\* line 133: df_filtrado['video_marca'] raises KeyError
SidebarNoMarca ==
    /\ pc = "sidebar"
    /\ ~Empty(df)
    /\ "created_at" \in df.cols
    /\ "video_marca" \notin df.cols
    /\ \E d \in DiasChoices :
          /\ dias' = d
          /\ df_janela' = DateWindow(df.rows, DataCorte(d))
    /\ widgets' = {[col |-> "created_at", options |-> {"slider"}]}
    /\ pc' = "crashed"
    /\ err' = "KeyError: 'video_marca'"
    /\ UNCHANGED <<backend, cfg, supabase, resp, df, todas_marcas, marca_sel,
                   df_filtrado, warned, kpi, heat_data, computed>>

\* lines 137-139: df is empty
SidebarEmpty ==
    /\ pc = "sidebar"
    /\ Empty(df)
    /\ df_filtrado' = <<>>
    /\ dias' = SliderDefault
    /\ pc' = "guard"
    /\ UNCHANGED <<err, backend, cfg, supabase, resp, df, df_janela,
                   todas_marcas, marca_sel, widgets, warned, kpi, heat_data,
                   computed>>

\* lines 141-143
EmptyGuard ==
    /\ pc = "guard"
    /\ IF MustStop(df_filtrado)
       THEN warned' = TRUE /\ pc' = "stopped"
       ELSE warned' = warned /\ pc' = "metrics"
    /\ UNCHANGED <<err, backend, cfg, supabase, resp, df, dias, df_janela,
                   todas_marcas, marca_sel, widgets, df_filtrado, kpi,
                   heat_data, computed>>

\* lines 151-155 and the KPI cards
Metrics ==
    /\ pc = "metrics"
    /\ IF "file_name" \in df.cols
       THEN LET total == Len(df_filtrado)
                resolvidos == Resolvidos(df.cols, df_filtrado)
            IN  /\ kpi' = [total |-> total,
                           videos_unicos |-> VideosUnicos(df_filtrado),
                           resolvidos |-> resolvidos,
                           taxa_res |-> TaxaRes(resolvidos, total),
                           pendentes |-> total - resolvidos]
                /\ computed' = computed \cup {"total", "videos_unicos", "taxa_res"}
                /\ pc' = "charts"
                /\ err' = err
       ELSE /\ kpi' = [kpi EXCEPT !.total = Len(df_filtrado)]
            /\ computed' = computed \cup {"total"}
            /\ pc' = "crashed"
            /\ err' = "KeyError: 'file_name'"
    /\ UNCHANGED <<backend, cfg, supabase, resp, df, dias, df_janela,
                   todas_marcas, marca_sel, widgets, df_filtrado, warned,
                   heat_data>>

\* lines 200-271: the heatmap, the top issues and the detail table
Charts ==
    /\ pc = "charts"
    /\ IF "ai_category_topic" \in df.cols /\ Unhashable(df_filtrado)
       THEN /\ pc' = "crashed"
            /\ err' = "TypeError: unhashable type: 'list'"
            /\ UNCHANGED <<heat_data, computed>>
       ELSE IF "ai_category_topic" \notin df.cols
       THEN /\ pc' = "crashed"
            /\ err' = "KeyError: 'ai_category_topic'"
            /\ UNCHANGED <<heat_data, computed>>
       ELSE /\ heat_data' = HeatData(df_filtrado)
            /\ computed' = computed \cup {"heat_data", "top_issues"}
            /\ IF cols_view \subseteq df.cols
               THEN pc' = "done" /\ err' = err
               ELSE pc' = "crashed" /\ err' = "KeyError: not in index"
    /\ UNCHANGED <<backend, cfg, supabase, resp, df, dias, df_janela,
                   todas_marcas, marca_sel, widgets, df_filtrado, warned, kpi>>

Next ==
    \/ InitConnection
    \/ GetData
    \/ SidebarFilter
    \/ SidebarNoCreatedAt
    \/ SidebarNoMarca
    \/ SidebarEmpty
    \/ EmptyGuard
    \/ Metrics
    \/ Charts

Spec == Init /\ [][Next]_vars

\* the runs over the tables of raw topic values
InitTopics == backend \in TopicTables /\ InitRun

SpecTopics == InitTopics /\ [][Next]_vars

---------------------------------------------------------------------------
(* Properties *)

\* init_connection and get_data have returned
LoaderDone == pc \notin {"start", "fetch"}

\* the sidebar's lines 129-131 have run: df is not empty and has created_at
Windowed == LoaderDone /\ pc # "sidebar" /\ ~Empty(df) /\ "created_at" \in df.cols

\* the sidebar's lines 129-136 have run
Filtered == Windowed /\ "video_marca" \in df.cols

\* the number of rows of rows equal to r
Occ(rows, r) == Cardinality({i \in 1..Len(rows) : rows[i] = r})

\* a text of created_at that is no date was fetched
BadDate == "created_at" \in backend.cols
              /\ \E i \in 1..Len(backend.rows) : ~backend.rows[i].created_at.ok

\* C1: the loader never raises; whenever the configuration is missing or
\* invalid, the select fails, the response is malformed or the normalisation
\* of the rows raises, get_data returns the empty frame; it returns rows only
\* when the select succeeded and fetched at least one row.
C1_LoaderFailSoft ==
    /\ err \notin {"init_connection", "get_data"}
    /\ pc # "start" => (supabase = "None" <=> cfg \in {"no_url", "no_key", "bad_url"})
    /\ LoaderDone =>
         /\ (supabase = "None" \/ resp # "ok" \/ backend.rows = <<>> \/ BadDate)
               => df = EmptyDF
         /\ df.rows # <<>> =>
               /\ supabase = "client" /\ resp = "ok"
               /\ Len(backend.rows) >= 1
               /\ Len(df.rows) = Len(backend.rows)

\* C1's case: rows were fetched, one with a created_at that is no date
C1_Witness == LoaderDone /\ resp = "ok" /\ BadDate /\ df = EmptyDF /\ err = ""

\* what C2 says limpar_topico(x) is, for a string x that begins with "[",
\* v being what the string evaluates to as a literal
C2_ListCase(x, y, v) ==
    /\ (v.t = "list" /\ Len(v.v) > 0 /\ v.v[1].t = "str") => y = v.v[1]
    /\ (v.t = "list" /\ Len(v.v) = 0) => (y.t = "str" /\ y.v = <<"[", "]">>)
    /\ v.t = "raise" => (y.t = "str" /\ y.v = x.v)

\* y is what C2 says limpar_topico(x) is
C2_Case(x, y) ==
    x.t = "str" =>
        IF Len(x.v) > 0 /\ x.v[1] = "["
        THEN C2_ListCase(x, y, literal_eval(x.v))
        ELSE y.t = "str" /\ y.v = x.v

\* C2: after a successful fetch every row is there and its topic is: the
\* first element when the raw string is a list literal with a string first;
\* "[]" when it is the empty list literal; the string itself when it does not
\* begin with "[" or begins with "[" and is no literal.  A row that fails to
\* parse leaves the others as they are.
C2_TopicNormalization ==
    (LoaderDone /\ supabase = "client" /\ resp = "ok"
        /\ "ai_category_topic" \in backend.cols /\ ~BadDate) =>
        /\ Len(df.rows) = Len(backend.rows)
        /\ \A i \in 1..Len(backend.rows) :
              C2_Case(backend.rows[i].ai_category_topic, df.rows[i].ai_category_topic)

\* C2's case: a malformed row beside a row whose list literal gave its first
\* element
C2_Witness ==
    /\ LoaderDone /\ Len(df.rows) = 2
    /\ backend.rows[1].ai_category_topic =
          PyStr(<<"[", Q, "a", Q, ",", " ", "1", "]">>)
    /\ df.rows[1].ai_category_topic = PyStr(<<"a">>)
    /\ backend.rows[2].ai_category_topic = Unterminated
    /\ df.rows[2].ai_category_topic = Unterminated

\* C3: after normalisation ai_category_topic is a plain string in every row.
C3_AlwaysString ==
    (LoaderDone /\ "ai_category_topic" \in df.cols) =>
        \A i \in 1..Len(df.rows) : df.rows[i].ai_category_topic.t = "str"

\* C4: with a non-empty brand selection the output holds exactly the
\* date-windowed rows whose video_marca is selected; with an empty one it is
\* the date-windowed set, row for row.
C4_BrandFilter ==
    Filtered =>
        /\ marca_sel \subseteq todas_marcas
        /\ \A i \in 1..Len(df_janela) :
              Occ(df_filtrado, df_janela[i]) =
                 IF marca_sel = {} \/ df_janela[i].video_marca \in marca_sel
                 THEN Occ(df_janela, df_janela[i]) ELSE 0
        /\ \A i \in 1..Len(df_filtrado) : Occ(df_janela, df_filtrado[i]) > 0
        /\ marca_sel = {} => Len(df_filtrado) = Len(df_janela)

\* C4's case: brands were offered, none is selected, and every row is kept
C4_Witness ==
    /\ Filtered /\ Cardinality(todas_marcas) = 2 /\ marca_sel = {}
    /\ Len(df_janela) >= 2 /\ df_filtrado = df_janela

\* the options the sidebar offers for column c
OfferedFor(c) == UNION {w.options : w \in {u \in widgets : u.col = c}}

\* the distinct topics of rows
Topics(rows) == {rows[i].ai_category_topic : i \in 1..Len(rows)}

C6_RoundTrip == (Filtered /\ marca_sel = todas_marcas) => df_filtrado = df_janela

\* C7: without a created_at column the date window is a pass-through: the run
\* does not fail and every row reaches the brand stage.
C7_NoCreatedAt ==
    (LoaderDone /\ pc # "sidebar" /\ ~Empty(df) /\ "created_at" \notin df.cols) =>
        /\ pc # "crashed"
        /\ df_janela = df.rows

\* the run got past the sidebar without an exception in it
SidebarDone ==
    /\ LoaderDone /\ pc \notin {"sidebar", "guard"}
    /\ err \notin {"KeyError: 'created_at'", "KeyError: 'video_marca'"}

\* C8: when nothing was fetched or the filters leave no row, the warning is
\* shown and the run stops with no aggregate computed; aggregates are computed
\* only on a non-empty filtered set.
C8_EmptyState ==
    /\ computed # {} => (df_filtrado # <<>> /\ ~warned)
    /\ warned <=> pc = "stopped"
    /\ (SidebarDone /\ df_filtrado = <<>>) =>
          (pc = "stopped" /\ warned /\ computed = {} /\ kpi = NoKpi)

\* C8's case: rows were fetched and the filters left none
C8_Witness ==
    /\ Filtered /\ pc = "stopped" /\ warned
    /\ df.rows # <<>> /\ df_filtrado = <<>> /\ computed = {}

\* C9: a row is kept by the date window if and only if its created_at is at
\* or after now - dias, for the slider's values from 1 to 90.
C9_DateWindowInclusive ==
    Windowed =>
        /\ dias \in SliderMin..SliderMax
        /\ \A i \in 1..Len(df.rows) :
              Occ(df_janela, df.rows[i]) =
                 IF df.rows[i].created_at >= Now - dias
                 THEN Occ(df.rows, df.rows[i]) ELSE 0
        /\ Len(df_janela) =
              Cardinality({i \in 1..Len(df.rows) : df.rows[i].created_at >= Now - dias})

\* C9's case: a row exactly at the boundary is kept, one a day older is not
C9_Witness ==
    /\ Windowed
    /\ \E i \in 1..Len(df_janela) : df_janela[i].created_at = Now - dias
    /\ \E i \in 1..Len(df.rows) : /\ df.rows[i].created_at = Now - dias - 1
                                  /\ Occ(df_janela, df.rows[i]) = 0

\* the rows of rows with status "Resolvido"
NResolvido(rows) == Cardinality({i \in 1..Len(rows) : rows[i].status = "Resolvido"})

\* C10: the rate shown is resolved / total as the nearest whole percentage
\* (3 of 4 gives 75), 0 when total is 0 and when there is no status column; it
\* lies in 0..100 and pending = total - resolved is not negative.
C10_ResolutionRate ==
    /\ "taxa_res" \in computed =>
          /\ kpi.total = Len(df_filtrado)
          /\ kpi.resolvidos = IF "status" \in df.cols THEN NResolvido(df_filtrado) ELSE 0
          /\ 2 * (100 * kpi.resolvidos - kpi.taxa_res * kpi.total) <= kpi.total
          /\ 2 * (kpi.taxa_res * kpi.total - 100 * kpi.resolvidos) <= kpi.total
          /\ kpi.taxa_res \in 0..100
          /\ kpi.pendentes = kpi.total - kpi.resolvidos
          /\ kpi.pendentes >= 0
          /\ "status" \notin df.cols => kpi.taxa_res = 0
    /\ \A r \in 0..MaxRows : TaxaRes(r, 0) = 0
    /\ TaxaRes(3, 4) = 75

\* C10's case: three rows of four are resolved
C10_Witness ==
    /\ "taxa_res" \in computed
    /\ kpi.total = 4 /\ kpi.resolvidos = 3 /\ kpi.taxa_res = 75 /\ kpi.pendentes = 1

===========================================================================
